---- MODULE Spec2Model ----
(***************************************************************************)
(* A model of cleaver's experiment engine, src/cleaver/base.py: the        *)
(* Cleaver object's split and score, its variant parser, and the backend   *)
(* and selector it calls.  Every backend call of a request is one step, so *)
(* that requests of several workers interleave between backend calls.      *)
(***************************************************************************)
EXTENDS Integers, Sequences, FiniteSets, TLC

(***************************************************************************)
(* Python values, tagged by type.                                          *)
(***************************************************************************)
PyStr(s) == [str |-> s]
PyInt(i) == [int |-> i]
PyFloat(f) == [float |-> f]
PyBool(b) == [bool |-> b]
None == [none |-> 0]

\* isinstance(x, string_types)
IsString(x) == DOMAIN x = {"str"}

\* isinstance(x, int): a Python bool is an int
IsInt(x) == DOMAIN x \in {{"int"}, {"bool"}}

\* the number a Python int (or bool) stands for
IntVal(x) == IF DOMAIN x = {"bool"} THEN (IF x.bool THEN 1 ELSE 0) ELSE x.int

(***************************************************************************)
(* Bounds of the model.                                                    *)
(***************************************************************************)
\* requests started in one behaviour of concurrent workers
MaxCalls == 2

\* requests started in one sequential history
MaxSeqCalls == 3

\* declarations in a list given to the parser on its own
MaxDecls == 2

(***************************************************************************)
(* The requests the model issues.                                          *)
(***************************************************************************)
Workers == {"w1", "w2"}

Visitors == {"X", "Y"}

\* the environ of a request whose identity provider is not deterministic
UnstableEnviron == "unstable"

\* the environs of requests: a visitor's, or the unstable one
Environs == Visitors \cup {UnstableEnviron}

StringNames == {PyStr("e"), PyStr("flag")}

DeclAB == << <<PyStr("a"), PyInt(1)>>, <<PyStr("b"), PyInt(2)>> >>
DeclBA == << <<PyStr("b"), PyInt(2)>>, <<PyStr("a"), PyInt(1)>> >>
DeclAC == << <<PyStr("a"), PyInt(1)>>, <<PyStr("c"), PyInt(3)>> >>

\* the declaration lists of a sequential history
VariantInputs ==
    { <<>>, DeclAB, DeclBA, DeclAC,
      << <<PyStr("a"), PyInt(1)>> >>,
      << <<PyStr("a"), PyInt(2)>>, <<PyStr("b"), PyInt(1)>> >>,
      << <<PyStr("a"), PyInt(1), PyInt(0)>>, <<PyStr("b"), PyInt(2), PyInt(1)>> >>,
      << <<PyStr("a"), PyInt(1), PyInt(-1)>>, <<PyStr("b"), PyInt(2), PyInt(2)>> >>,
      << <<PyStr("a"), PyInt(1), PyFloat("1.5")>>, <<PyStr("b"), PyInt(2), PyInt(1)>> >>,
      << <<PyInt(1), PyInt(1)>>, <<PyStr("b"), PyInt(2)>> >>,
      << <<PyStr("a")>>, <<PyStr("b")>> >>,
      << <<PyStr("a"), PyInt(1)>>, <<PyStr("a"), PyInt(2)>>, <<PyStr("b"), PyInt(3)>> >>,
      << <<PyStr("a"), PyInt(1), PyInt(2)>>, <<PyStr("b"), PyInt(2), PyInt(3)>> >> }

\* the declarations and declaration lists given to the parser on its own:
\* every list of at most MaxDecls declarations of 1, 2 or 3 elements
Declarations ==
    LET ks == {PyStr("a"), PyStr("b"), PyInt(1)}
        xs == {PyInt(1), PyInt(2)}
        ws == {PyInt(2), PyInt(0), PyFloat("1.5")}
    IN  {<<k>> : k \in ks} \cup (ks \X xs) \cup (ks \X xs \X ws)

ParseInputs == UNION {[1..n -> Declarations] : n \in 0..MaxDecls}

\* the split requests of a sequential history: <<experiment name, declarations>>
SplitRequests ==
    ({PyStr("e")} \X VariantInputs)
        \cup ({PyStr("flag")} \X {<<>>, DeclAB})
        \cup ({PyInt(7)} \X {DeclAB})

\* the split requests of concurrent workers
RaceRequests ==
    ({PyStr("e")} \X {DeclAB, DeclAC}) \cup ({PyStr("flag")} \X {DeclAB})

VARIABLES
    experiments,      \* backend: experiment name -> Experiment record or None
    pendingSaves,     \* backend: save_experiment calls accepted but not yet applied
    participations,   \* backend: <<identity, experiment name>> -> variant key or None
    scores,           \* backend: <<experiment name, variant>> -> conversions counted
    pc,               \* per worker: the place of its request
    op,               \* per worker: "split" or "score"
    environ,          \* per worker: the request's environ (its visitor)
    experiment_name,  \* per worker: argument
    variants,         \* per worker: argument *variants
    experiment,       \* per worker: local of split
    variant,          \* per worker: local of split, argument of backend.score
    result,           \* per worker: how the request ended
    retval,           \* per worker: what split returned
    calls,            \* requests started so far
    did,              \* history, per worker: what its request has done so far
                      \* (of "save_experiment", "draw", "participate", "score")
    firstRet,         \* history: <<identity, experiment name>> -> the first
                      \* successful split: its declared pairs, variant and value
    lookup_identity   \* history, per worker: the identity its request passed
                      \* to get_variant

vars == <<experiments, pendingSaves, participations, scores, pc, op, environ,
          experiment_name, variants, experiment, variant, result, retval, calls,
          did, firstRet, lookup_identity>>

(***************************************************************************)
(* Cleaver._parse_variants and its helper add_defaults.                    *)
(***************************************************************************)
\* the implicit pair with the integers 1 and 0 for the booleans
DefaultVariants_Integers ==
    << <<PyStr("True"), PyInt(1)>>, <<PyStr("False"), PyInt(0)>> >>

\* variants = [('True', True), ('False', False)] (line 119)
DefaultVariants ==
    << <<PyStr("True"), PyBool(TRUE)>>, <<PyStr("False"), PyBool(FALSE)>> >>

\* add_defaults padding a lone key with the default weight in the place of
\* the value and None in the place of the weight
add_defaults_SwappedDefaults(v) ==
    LET w == IF Len(v) < 3
             THEN v \o (IF Len(v) = 1 THEN <<PyInt(1), None>> ELSE <<PyInt(1)>>)
             ELSE v
    IN  IF ~IsString(w[1])
        THEN [error |-> "RuntimeError: invalid variant name", v |-> w]
        ELSE IF ~IsInt(w[3])
        THEN [error |-> "RuntimeError: invalid variant weight", v |-> w]
        ELSE [error |-> "none", v |-> w]

\* add_defaults(v): the declaration padded to (key, value, weight), or the
\* RuntimeError of its type checks
add_defaults(v) ==
    LET w == IF Len(v) < 3
             THEN v \o (IF Len(v) = 1 THEN <<None, PyInt(1)>> ELSE <<PyInt(1)>>)
             ELSE v
    IN  IF ~IsString(w[1])
        THEN [error |-> "RuntimeError: invalid variant name", v |-> w]
        ELSE IF ~IsInt(w[3])
        THEN [error |-> "RuntimeError: invalid variant weight", v |-> w]
        ELSE [error |-> "none", v |-> w]

\* _parse_variants(variants) followed by the unpacking into keys, values,
\* weights at the call site; error names the exception raised, if any
_parse_variants(vs0) ==
    LET vs == IF Len(vs0) = 0 THEN DefaultVariants ELSE vs0
        ds == [i \in DOMAIN vs |-> add_defaults(vs[i])]
        bad == {i \in DOMAIN vs : ds[i].error # "none"}
        first == CHOOSE i \in bad : \A j \in bad : i <= j
        failed(e) == [error |-> e, keys |-> <<>>, values |-> <<>>, weights |-> <<>>]
    IN  IF Len(vs) = 1
        THEN failed("RuntimeError: at least two variants")
        ELSE IF bad # {}
        THEN failed(ds[first].error)
        ELSE IF \E i \in DOMAIN vs : Len(ds[i].v) > 3
        THEN failed("ValueError: too many values to unpack")
        ELSE [error |-> "none",
              keys |-> [i \in DOMAIN vs |-> ds[i].v[1]],
              values |-> [i \in DOMAIN vs |-> ds[i].v[2]],
              weights |-> [i \in DOMAIN vs |-> ds[i].v[3]]]

\* set(keys)
KeySet(keys) == {keys[i] : i \in DOMAIN keys}

\* dict(zip(keys, values)): a later pair of the same key replaces an earlier
DictOf(keys, values) ==
    [k \in KeySet(keys) |->
        values[CHOOSE i \in DOMAIN keys :
                  keys[i] = k /\ \A j \in DOMAIN keys : keys[j] = k => j <= i]]

\* the key -> value pairs a list of declarations declares: the items of
\* dict(zip(keys, values))
DeclaredPairs(vs) ==
    LET parsed == _parse_variants(vs)
    IN  {<<k, DictOf(parsed.keys, parsed.values)[k]>> : k \in KeySet(parsed.keys)}

(***************************************************************************)
(* util.random_variant, the weighted selector.                             *)
(***************************************************************************)
RECURSIVE Cumulative(_, _)
Cumulative(weights, i) ==
    IF i = 0 THEN 0 ELSE Cumulative(weights, i - 1) + IntVal(weights[i])

\* the selector rejects weight sequences it cannot draw from
SelectorRejects(keys, weights) ==
    \/ Len(keys) # Len(weights)
    \/ \E i \in DOMAIN weights : IntVal(weights[i]) <= 0

\* the keys a draw can produce: key i for a uniform r in [0, total) that
\* falls in the cumulative interval of weight i
random_variant(keys, weights) ==
    LET total == Cumulative(weights, Len(weights))
    IN  {keys[i] : i \in {j \in DOMAIN keys :
            \E r \in 0 .. (total - 1) :
                Cumulative(weights, j - 1) <= r /\ r < Cumulative(weights, j)}}

(***************************************************************************)
(* The backend (cleaver.backend.CleaverBackend) and the identity provider. *)
(***************************************************************************)
VariantKeys ==
    UNION {KeySet(_parse_variants(vs).keys) : vs \in VariantInputs}

\* get_identity(environ): the values one resolution may return; a visitor's
\* environ resolves to the visitor, the unstable one to any visitor each time
get_identity(env) == IF env \in Visitors THEN {env} ELSE Visitors

get_experiment(name, keys) == experiments[name]

get_variant(identity, name) == participations[<<identity, name>>]

\* save_experiment(name, keys), applied: a create when the name is new; for a
\* stored name the backend keeps its record or takes the writer's, unmerged
save_experiment(name, keys) ==
    LET new == [name |-> name, variants |-> keys]
    IN  IF experiments[name] = None
        THEN {[experiments EXCEPT ![name] = new]}
        ELSE {experiments, [experiments EXCEPT ![name] = new]}

\* participate(identity, name, variant): records the assignment; when two
\* writers race, which of the two the backend keeps is the backend's choice
participate(identity, name, v) ==
    IF participations[<<identity, name>>] = None
    THEN {[participations EXCEPT ![<<identity, name>>] = v]}
    ELSE {participations, [participations EXCEPT ![<<identity, name>>] = v]}

\* score(name, variant): one conversion more for (name, variant)
score(name, v) ==
    [scores EXCEPT ![<<name, v>>] = @ + 1]

(***************************************************************************)
(* Cleaver.identity, Cleaver.split and Cleaver.score.                      *)
(***************************************************************************)
\* identity ignoring the request's environ: every request is one visitor's
identity_Shared(p) == get_identity("X")

\* self.identity (lines 40-47): a property, resolved anew by the provider on
\* every access; the values this access may yield
identity(p) == get_identity(environ[p])

Parsed(p) == _parse_variants(variants[p])

Init ==
    /\ experiments = [n \in StringNames |-> None]
    /\ pendingSaves = {}
    /\ participations = [k \in Visitors \X StringNames |-> None]
    /\ scores = [k \in StringNames \X (VariantKeys \cup {None}) |-> 0]
    /\ pc = [p \in Workers |-> "idle"]
    /\ op = [p \in Workers |-> "none"]
    /\ environ = [p \in Workers |-> "X"]
    /\ experiment_name = [p \in Workers |-> PyStr("e")]
    /\ variants = [p \in Workers |-> <<>>]
    /\ experiment = [p \in Workers |-> None]
    /\ variant = [p \in Workers |-> None]
    /\ result = [p \in Workers |-> "none"]
    /\ retval = [p \in Workers |-> None]
    /\ calls = 0
    /\ did = [p \in Workers |-> {}]
    /\ firstRet = [k \in Visitors \X StringNames |-> None]
    /\ lookup_identity = [p \in Workers |-> None]

backendVars == <<experiments, pendingSaves, participations, scores>>
argVars == <<op, environ, experiment_name, variants>>

\* a finished request is observed and its Cleaver object dropped before
\* anything else happens
NoneDone == \A q \in Workers : pc[q] # "done"

\* the request of worker p ends: returns (how = "ok") or raises
Finish(p, how, value) ==
    /\ pc' = [pc EXCEPT ![p] = "done"]
    /\ result' = [result EXCEPT ![p] = how]
    /\ retval' = [retval EXCEPT ![p] = value]

Continue(p, place) ==
    /\ pc' = [pc EXCEPT ![p] = place]
    /\ UNCHANGED <<result, retval>>

\* split(experiment_name, *variants) is called as visitor env: the name's
\* type check and the parse of the declarations (lines 72-80)
CallSplit(p, env, name, vs, bound) ==
    /\ NoneDone
    /\ pc[p] = "idle"
    /\ calls < bound
    /\ op' = [op EXCEPT ![p] = "split"]
    /\ environ' = [environ EXCEPT ![p] = env]
    /\ experiment_name' = [experiment_name EXCEPT ![p] = name]
    /\ variants' = [variants EXCEPT ![p] = vs]
    /\ IF ~IsString(name)
       THEN Finish(p, "RuntimeError: invalid experiment name", None)
       ELSE IF _parse_variants(vs).error # "none"
       THEN Finish(p, _parse_variants(vs).error, None)
       ELSE Continue(p, "get_experiment")
    /\ calls' = calls + 1
    /\ UNCHANGED <<backendVars, experiment, variant, did, firstRet,
                   lookup_identity>>

\* GetExperiment comparing the stored and the declared keys as sequences,
\* not as sets
GetExperiment_Ordered(p) ==
    /\ NoneDone
    /\ pc[p] = "get_experiment"
    /\ LET e == get_experiment(experiment_name[p], Parsed(p).keys)
       IN  /\ experiment' = [experiment EXCEPT ![p] = e]
           /\ IF e = None
              THEN Continue(p, "save_experiment")
              ELSE IF e.variants # Parsed(p).keys
              THEN Finish(p, "RuntimeError: exists with different variants", None)
              ELSE Continue(p, "get_variant")
    /\ UNCHANGED <<backendVars, argVars, variant, calls, did, firstRet,
                   lookup_identity>>

\* GetExperiment re-declaring a stored experiment whose keys differ, where
\* the code raises
GetExperiment_Upsert(p) ==
    /\ NoneDone
    /\ pc[p] = "get_experiment"
    /\ LET e == get_experiment(experiment_name[p], Parsed(p).keys)
       IN  /\ experiment' = [experiment EXCEPT ![p] = e]
           /\ IF e = None \/ KeySet(e.variants) # KeySet(Parsed(p).keys)
              THEN Continue(p, "save_experiment")
              ELSE Continue(p, "get_variant")
    /\ UNCHANGED <<backendVars, argVars, variant, calls, did, firstRet,
                   lookup_identity>>

\* experiment = b.get_experiment(experiment_name, keys) and the branch on
\* it (lines 83-93)
GetExperiment(p) ==
    /\ NoneDone
    /\ pc[p] = "get_experiment"
    /\ LET e == get_experiment(experiment_name[p], Parsed(p).keys)
       IN  /\ experiment' = [experiment EXCEPT ![p] = e]
           /\ IF e = None
              THEN Continue(p, "save_experiment")
              ELSE IF KeySet(e.variants) # KeySet(Parsed(p).keys)
              THEN Finish(p, "RuntimeError: exists with different variants", None)
              ELSE Continue(p, "get_variant")
    /\ UNCHANGED <<backendVars, argVars, variant, calls, did, firstRet,
                   lookup_identity>>

\* b.save_experiment(experiment_name, keys) (line 86): the backend applies
\* the create at once or takes it and applies it later
SaveExperiment(p) ==
    /\ NoneDone
    /\ pc[p] = "save_experiment"
    /\ \/ /\ experiments' \in save_experiment(experiment_name[p], Parsed(p).keys)
          /\ UNCHANGED pendingSaves
       \/ /\ pendingSaves' = pendingSaves \cup
                {[name |-> experiment_name[p], variants |-> Parsed(p).keys]}
          /\ UNCHANGED experiments
    /\ did' = [did EXCEPT ![p] = @ \cup {"save_experiment"}]
    /\ Continue(p, "reread")
    /\ UNCHANGED <<participations, scores, argVars, experiment, variant, calls,
                   firstRet, lookup_identity>>

\* the backend applies a create it took earlier
ApplySave ==
    /\ NoneDone
    /\ \E s \in pendingSaves :
        /\ pendingSaves' = pendingSaves \ {s}
        /\ experiments' \in save_experiment(s.name, s.variants)
    /\ UNCHANGED <<participations, scores, pc, argVars, experiment, variant,
                   result, retval, calls, did, firstRet, lookup_identity>>

\* ReRead in a retry loop: while the re-read finds no experiment, the
\* create is issued again
ReRead_Retry(p) ==
    /\ NoneDone
    /\ pc[p] = "reread"
    /\ LET e == get_experiment(experiment_name[p], Parsed(p).keys)
       IN  /\ experiment' = [experiment EXCEPT ![p] = e]
           /\ Continue(p, IF e = None THEN "save_experiment" ELSE "get_variant")
    /\ UNCHANGED <<backendVars, argVars, variant, calls, did, firstRet,
                   lookup_identity>>

\* experiment = b.get_experiment(experiment_name, keys) (line 87)
ReRead(p) ==
    /\ NoneDone
    /\ pc[p] = "reread"
    /\ experiment' = [experiment EXCEPT ![p] =
            get_experiment(experiment_name[p], Parsed(p).keys)]
    /\ Continue(p, "get_variant")
    /\ UNCHANGED <<backendVars, argVars, variant, calls, did, firstRet,
                   lookup_identity>>

\* GetVariant without the test of line 97: a variant is drawn and stored
\* whether or not one is stored already
GetVariant_AlwaysDraw(p) ==
    /\ NoneDone
    /\ pc[p] = "get_variant"
    /\ IF experiment[p] = None
       THEN /\ Finish(p, "AttributeError: None has no attribute name", None)
            /\ UNCHANGED <<variant, lookup_identity>>
       ELSE \E id \in identity(p) :
            /\ variant' = [variant EXCEPT ![p] =
                    get_variant(id, experiment[p].name)]
            /\ lookup_identity' = [lookup_identity EXCEPT ![p] = id]
            /\ Continue(p, "participate")
    /\ UNCHANGED <<backendVars, argVars, experiment, calls, did, firstRet>>

\* variant = b.get_variant(self.identity, experiment.name) (lines 96-97)
GetVariant(p) ==
    /\ NoneDone
    /\ pc[p] = "get_variant"
    /\ IF experiment[p] = None
       THEN /\ Finish(p, "AttributeError: None has no attribute name", None)
            /\ UNCHANGED <<variant, lookup_identity>>
       ELSE \E id \in identity(p) :
            LET v == get_variant(id, experiment[p].name)
            IN  /\ variant' = [variant EXCEPT ![p] = v]
                /\ lookup_identity' = [lookup_identity EXCEPT ![p] = id]
                /\ Continue(p, IF v = None THEN "participate" ELSE "return")
    /\ UNCHANGED <<backendVars, argVars, experiment, calls, did, firstRet>>

\* Participate without line 100: the draw is never persisted
Participate_NoPersist(p) ==
    /\ NoneDone
    /\ pc[p] = "participate"
    /\ IF SelectorRejects(Parsed(p).keys, Parsed(p).weights)
       THEN /\ Finish(p, "ConfigurationError: selector", None)
            /\ UNCHANGED <<variant, did>>
       ELSE \E v \in random_variant(Parsed(p).keys, Parsed(p).weights) :
            /\ variant' = [variant EXCEPT ![p] = v]
            /\ did' = [did EXCEPT ![p] = @ \cup {"draw"}]
            /\ Continue(p, "return")
    /\ UNCHANGED <<backendVars, argVars, experiment, calls, firstRet,
                   lookup_identity>>

\* variant = next(util.random_variant(keys, weights)) and
\* b.participate(self.identity, experiment.name, variant) (lines 99-100)
Participate(p) ==
    /\ NoneDone
    /\ pc[p] = "participate"
    /\ IF SelectorRejects(Parsed(p).keys, Parsed(p).weights)
       THEN /\ Finish(p, "ConfigurationError: selector", None)
            /\ UNCHANGED <<variant, participations, did>>
       ELSE \E v \in random_variant(Parsed(p).keys, Parsed(p).weights),
               id \in identity(p) :
            /\ variant' = [variant EXCEPT ![p] = v]
            /\ participations' \in participate(id, experiment[p].name, v)
            /\ did' = [did EXCEPT ![p] = @ \cup {"draw", "participate"}]
            /\ Continue(p, "return")
    /\ UNCHANGED <<experiments, pendingSaves, scores, argVars, experiment, calls,
                   firstRet, lookup_identity>>

\* return dict(zip(keys, values))[variant] (line 102)
Return(p) ==
    /\ NoneDone
    /\ pc[p] = "return"
    /\ IF variant[p] \in KeySet(Parsed(p).keys)
       THEN LET value == DictOf(Parsed(p).keys, Parsed(p).values)[variant[p]]
                k == <<lookup_identity[p], experiment_name[p]>>
            IN  /\ Finish(p, "ok", value)
                /\ firstRet' =
                    IF firstRet[k] = None
                    THEN [firstRet EXCEPT ![k] =
                            [pairs |-> DeclaredPairs(variants[p]),
                             variant |-> variant[p], value |-> value]]
                    ELSE firstRet
       ELSE /\ Finish(p, "KeyError", None)
            /\ UNCHANGED firstRet
    /\ UNCHANGED <<backendVars, argVars, experiment, variant, calls, did,
                   lookup_identity>>

\* score(experiment_name) is called as visitor env
CallScore(p, env, name, bound) ==
    /\ NoneDone
    /\ pc[p] = "idle"
    /\ calls < bound
    /\ op' = [op EXCEPT ![p] = "score"]
    /\ environ' = [environ EXCEPT ![p] = env]
    /\ experiment_name' = [experiment_name EXCEPT ![p] = name]
    /\ Continue(p, "score_get_variant")
    /\ calls' = calls + 1
    /\ UNCHANGED <<backendVars, variants, experiment, variant, did, firstRet,
                   lookup_identity>>

\* ScoreGetVariant without the lookup: score is called with no variant
ScoreGetVariant_NoLookup(p) ==
    /\ NoneDone
    /\ pc[p] = "score_get_variant"
    /\ variant' = [variant EXCEPT ![p] = None]
    /\ Continue(p, "score")
    /\ UNCHANGED <<backendVars, argVars, experiment, calls, did, firstRet,
                   lookup_identity>>

\* self._backend.get_variant(self.identity, experiment_name) (line 114)
ScoreGetVariant(p) ==
    /\ NoneDone
    /\ pc[p] = "score_get_variant"
    /\ \E id \in identity(p) :
        /\ variant' = [variant EXCEPT ![p] =
                get_variant(id, experiment_name[p])]
        /\ lookup_identity' = [lookup_identity EXCEPT ![p] = id]
    /\ Continue(p, "score")
    /\ UNCHANGED <<backendVars, argVars, experiment, calls, did, firstRet>>

\* Score refusing an identity without a stored variant: it raises and
\* the backend's score is not called
Score_RejectsAbsent(p) ==
    /\ NoneDone
    /\ pc[p] = "score"
    /\ IF variant[p] = None
       THEN /\ Finish(p, "RuntimeError: no participation", None)
            /\ UNCHANGED <<scores, did>>
       ELSE /\ scores' = score(experiment_name[p], variant[p])
            /\ Finish(p, "ok", None)
            /\ did' = [did EXCEPT ![p] = @ \cup {"score"}]
    /\ UNCHANGED <<experiments, pendingSaves, participations, argVars,
                   experiment, variant, calls, firstRet, lookup_identity>>

\* self._backend.score(experiment_name, variant) (lines 112-115)
Score(p) ==
    /\ NoneDone
    /\ pc[p] = "score"
    /\ scores' = score(experiment_name[p], variant[p])
    /\ Finish(p, "ok", None)
    /\ did' = [did EXCEPT ![p] = @ \cup {"score"}]
    /\ UNCHANGED <<experiments, pendingSaves, participations, argVars,
                   experiment, variant, calls, firstRet, lookup_identity>>

\* the request is over: its Cleaver object and locals are dropped
Drop(p) ==
    /\ pc[p] = "done"
    /\ pc' = [pc EXCEPT ![p] = "idle"]
    /\ op' = [op EXCEPT ![p] = "none"]
    /\ environ' = [environ EXCEPT ![p] = "X"]
    /\ experiment_name' = [experiment_name EXCEPT ![p] = PyStr("e")]
    /\ variants' = [variants EXCEPT ![p] = <<>>]
    /\ experiment' = [experiment EXCEPT ![p] = None]
    /\ variant' = [variant EXCEPT ![p] = None]
    /\ result' = [result EXCEPT ![p] = "none"]
    /\ retval' = [retval EXCEPT ![p] = None]
    /\ did' = [did EXCEPT ![p] = {}]
    /\ lookup_identity' = [lookup_identity EXCEPT ![p] = None]
    /\ UNCHANGED <<backendVars, calls, firstRet>>

Step(p) ==
    \/ GetExperiment(p)
    \/ SaveExperiment(p)
    \/ ReRead(p)
    \/ GetVariant(p)
    \/ Participate(p)
    \/ Return(p)
    \/ ScoreGetVariant(p)
    \/ Score(p)
    \/ Drop(p)

\* requests of the workers interleave between backend calls
Next ==
    \/ \E p \in Workers, env \in Visitors, r \in RaceRequests :
            CallSplit(p, env, r[1], r[2], MaxCalls)
    \/ \E p \in Workers, env \in Visitors, name \in StringNames :
            CallScore(p, env, name, MaxCalls)
    \/ \E p \in Workers : Step(p)
    \/ ApplySave

Spec == Init /\ [][Next]_vars

\* a sequential history: one worker serves the requests one after the other,
\* each starting when the backend has applied what the earlier ones wrote
NextSeq ==
    \/ \E env \in Visitors, r \in SplitRequests :
            pendingSaves = {} /\ CallSplit("w1", env, r[1], r[2], MaxSeqCalls)
    \/ \E env \in Visitors, name \in StringNames :
            pendingSaves = {} /\ CallScore("w1", env, name, MaxSeqCalls)
    \/ Step("w1")
    \/ ApplySave

SpecSeq == Init /\ [][NextSeq]_vars

\* a sequential history in which requests may come with an identity provider
\* that returns a different value on each resolution
NextUnstable ==
    \/ \E env \in Environs, r \in RaceRequests :
            pendingSaves = {} /\ CallSplit("w1", env, r[1], r[2], MaxSeqCalls)
    \/ \E env \in Environs, name \in StringNames :
            pendingSaves = {} /\ CallScore("w1", env, name, MaxSeqCalls)
    \/ Step("w1")
    \/ ApplySave

SpecUnstable == Init /\ [][NextUnstable]_vars

\* keys, values, weights = self._parse_variants(variants) (line 79) on its
\* own: result and retval take the exception or the three sequences
ParseVariants(p) ==
    /\ pc[p] = "idle"
    /\ op[p] = "none"
    /\ op' = [op EXCEPT ![p] = "_parse_variants"]
    /\ LET parsed == _parse_variants(variants[p])
       IN  IF parsed.error = "none"
           THEN Finish(p, "ok", <<parsed.keys, parsed.values, parsed.weights>>)
           ELSE Finish(p, parsed.error, None)
    /\ UNCHANGED <<backendVars, environ, experiment_name, variants, experiment,
                   variant, calls, did, firstRet, lookup_identity>>

\* the parser is given any of the declaration lists
InitParse ==
    /\ experiments = [n \in StringNames |-> None]
    /\ pendingSaves = {}
    /\ participations = [k \in Visitors \X StringNames |-> None]
    /\ scores = [k \in StringNames \X (VariantKeys \cup {None}) |-> 0]
    /\ pc = [p \in Workers |-> "idle"]
    /\ op = [p \in Workers |-> "none"]
    /\ environ = [p \in Workers |-> "X"]
    /\ experiment_name = [p \in Workers |-> PyStr("e")]
    /\ \E vs \in ParseInputs :
            variants = [p \in Workers |-> IF p = "w1" THEN vs ELSE <<>>]
    /\ experiment = [p \in Workers |-> None]
    /\ variant = [p \in Workers |-> None]
    /\ result = [p \in Workers |-> "none"]
    /\ retval = [p \in Workers |-> None]
    /\ calls = 0
    /\ did = [p \in Workers |-> {}]
    /\ firstRet = [k \in Visitors \X StringNames |-> None]
    /\ lookup_identity = [p \in Workers |-> None]

NextParse == ParseVariants("w1")

SpecParse == InitParse /\ [][NextParse]_vars

(***************************************************************************)
(* The properties checked.                                                 *)
(***************************************************************************)
\* the exceptions split raises for a misuse by its caller
NameError == "RuntimeError: invalid experiment name"
ArityError == "RuntimeError: at least two variants"
KeyTypeError == "RuntimeError: invalid variant name"
WeightTypeError == "RuntimeError: invalid variant weight"
ExistsError == "RuntimeError: exists with different variants"
SelectorError == "ConfigurationError: selector"
ConfigurationErrors ==
    {NameError, ArityError, KeyTypeError, WeightTypeError, ExistsError,
     SelectorError}

\* worker p's request is a split that has returned a value
Returned(p) == pc[p] = "done" /\ op[p] = "split" /\ result[p] = "ok"

\* C1: in a sequential history, once a split by identity X for an experiment
\* has returned, every later successful split by X for it resolves to the
\* same variant key and, when it declares the same key -> value pairs,
\* returns the same value; a split reaches the draw only while no split by X
\* for the experiment has returned.
C1_StickyAssignment ==
    \A p \in Workers :
        LET f == firstRet[<<environ[p], experiment_name[p]>>]
        IN  /\ Returned(p) =>
                /\ f # None
                /\ variant[p] = f.variant
                /\ DeclaredPairs(variants[p]) = f.pairs => retval[p] = f.value
            /\ (op[p] = "split" /\ pc[p] = "participate") => f = None
            /\ (op[p] = "split" /\ "draw" \in did[p] /\ pc[p] = "return") => f = None

\* a later split by the same identity, declaring the pairs of the first in
\* another order, has returned without a draw
C1_Witness ==
    \E p \in Workers :
        /\ Returned(p)
        /\ "draw" \notin did[p]
        /\ variants[p] = DeclBA
        /\ experiment[p].variants = <<PyStr("a"), PyStr("b")>>
        /\ firstRet[<<environ[p], experiment_name[p]>>].pairs = DeclaredPairs(DeclBA)

\* C2: a split that finds the experiment stored fails with "exists with
\* different variants" exactly when the declared keys, as a set, differ from
\* the stored keys, as a set; the order of the keys does not matter.
C2_ExperimentConsistency ==
    \A p \in Workers :
        (/\ op[p] = "split"
         /\ pc[p] \in {"get_variant", "participate", "return", "done"}
         /\ result[p] \notin {NameError, ArityError, KeyTypeError, WeightTypeError}
         /\ "save_experiment" \notin did[p])
        => /\ experiment[p] # None
           /\ result[p] = ExistsError
                <=> KeySet(experiment[p].variants) # KeySet(Parsed(p).keys)
           /\ result[p] = ExistsError => pc[p] = "done"

\* a split declaring keys a, c has failed on the stored keys a, b
C2_Witness ==
    \E p \in Workers :
        /\ pc[p] = "done"
        /\ result[p] = ExistsError
        /\ variants[p] = DeclAC
        /\ experiment[p].variants = <<PyStr("a"), PyStr("b")>>
\* C3 as stated: over every interleaving, the variant stored for an
\* (identity, experiment) pair, once set, is never overwritten.
C3_WriteOnce ==
    [][\A k \in DOMAIN participations :
          participations[k] # None => participations'[k] = participations[k]]_vars

\* C3, amended: a stored variant is never removed, and it is replaced only
\* by the participate of a split by the same identity for the same
\* experiment whose own get_variant had returned no variant (a concurrent
\* first access), by that split's draw.
C3_ReplacedOnlyByRacingFirstAccess ==
    [][\A k \in DOMAIN participations :
          (participations[k] # None /\ participations'[k] # participations[k]) =>
              /\ participations'[k] # None
              /\ \E p \in Workers :
                    /\ op[p] = "split"
                    /\ pc[p] = "participate" /\ pc'[p] = "return"
                    /\ <<environ[p], experiment_name[p]>> = k
                    /\ variant[p] = None
                    /\ participations'[k] = variant'[p]]_vars

\* two splits of one identity for one experiment have both drawn and both
\* called participate, with different draws
C3_Witness ==
    \E p, q \in Workers :
        /\ p # q
        /\ environ[p] = environ[q] /\ experiment_name[p] = experiment_name[q]
        /\ "participate" \in did[p] /\ "participate" \in did[q]
        /\ variant[p] # variant[q]
        /\ participations[<<environ[q], experiment_name[q]>>] = variant[q]

\* C4 as stated: over every interleaving, once an experiment record exists
\* its stored variant-key set never changes.
C4_KeySetNeverChanges ==
    [][\A n \in StringNames :
          experiments[n] # None =>
              /\ experiments'[n] # None
              /\ KeySet(experiments'[n].variants) = KeySet(experiments[n].variants)]_vars

\* C4, amended: the engine calls save_experiment only from a call whose own
\* get_experiment returned absent; a stored experiment is never removed, and
\* its record changes only when the backend applies such a call's
\* save_experiment, to exactly the keys that call declared (never a merge).
C4_ChangedOnlyByCreatorThatReadAbsent ==
    [][/\ \A p \in Workers : pc[p] = "save_experiment" => experiment[p] = None
       /\ \A s \in pendingSaves' \ pendingSaves :
             \E p \in Workers :
                /\ pc[p] = "save_experiment" /\ pc'[p] = "reread"
                /\ s = [name |-> experiment_name[p], variants |-> Parsed(p).keys]
       /\ \A n \in StringNames :
             (experiments[n] # None /\ experiments'[n] # experiments[n]) =>
                /\ experiments'[n] # None
                /\ \/ \E p \in Workers :
                        /\ pc[p] = "save_experiment" /\ pc'[p] = "reread"
                        /\ experiment_name[p] = n
                        /\ experiments'[n].variants = Parsed(p).keys
                   \/ \E s \in pendingSaves \ pendingSaves' :
                        s.name = n /\ experiments'[n].variants = s.variants]_vars

\* two callers that both saw the experiment absent have both called
\* save_experiment for it, with different key sets
C4_Witness ==
    \E p, q \in Workers :
        /\ p # q
        /\ experiment_name[p] = experiment_name[q]
        /\ "save_experiment" \in did[p] /\ "save_experiment" \in did[q]
        /\ KeySet(Parsed(p).keys) # KeySet(Parsed(q).keys)
        /\ experiments[experiment_name[p]] # None
        /\ KeySet(experiments[experiment_name[p]].variants) = KeySet(Parsed(q).keys)
        /\ pc[p] = "return"
\* a declaration list with an integer weight <= 0
HasNonPositiveWeight(vs) ==
    \E i \in DOMAIN vs :
        Len(vs[i]) = 3 /\ DOMAIN vs[i][3] = {"int"} /\ vs[i][3].int <= 0

\* C5: a split whose declarations contain a weight <= 0 fails with a
\* configuration error; it registers no experiment, draws no variant and
\* writes nothing.
C5_NonPositiveWeightRejected ==
    \A p \in Workers :
        (op[p] = "split" /\ HasNonPositiveWeight(variants[p])) =>
            /\ did[p] = {}
            /\ pc[p] = "done" => result[p] \in ConfigurationErrors

\* C6: in a sequential history, once split has assigned variant v to
\* identity X for an experiment, a score of that experiment by X adds one
\* conversion to (experiment, v) and changes no other count, no experiment
\* and no participation.
C6_RoundTripScoring ==
    [][\A p \in Workers :
          (op[p] = "score" /\ pc[p] = "score" /\ pc'[p] = "done") =>
              LET k == <<environ[p], experiment_name[p]>>
              IN  firstRet[k] # None =>
                    /\ scores' = [scores EXCEPT
                            ![<<experiment_name[p], firstRet[k].variant>>] = @ + 1]
                    /\ UNCHANGED <<experiments, participations>>]_vars

\* a score by an identity that split had assigned a variant has been recorded
C6_Witness ==
    \E p \in Workers :
        LET k == <<environ[p], experiment_name[p]>>
        IN  /\ pc[p] = "done" /\ op[p] = "score" /\ "score" \in did[p]
            /\ firstRet[k] # None
            /\ scores[<<experiment_name[p], firstRet[k].variant>>] = 1

\* what C7 states of every step but the re-targeting: a participation is
\* created or changed only by the participate of a split of its own
\* identity for its own experiment, score never changes one, and conversions
\* are counted only by score
C7_OnlyOwnSplitAssigns ==
    /\ \A k \in DOMAIN participations :
          participations'[k] # participations[k] =>
              \E p \in Workers :
                  /\ op[p] = "split" /\ pc[p] = "participate"
                  /\ <<environ[p], experiment_name[p]>> = k
                  /\ variant[p] = None
                  /\ participations'[k] = variant'[p]
    /\ \A p \in Workers :
          (op[p] = "score" /\ pc'[p] # pc[p]) => participations' = participations
    /\ scores' # scores => \E p \in Workers : op[p] = "score" /\ pc[p] = "score"

\* C7 as stated: per (identity, experiment) pair the only transitions are
\* Unassigned -> Assigned, by a split of that identity, never reversed and
\* never re-targeted, and Assigned -> Scored, by score.
C7_StateMachine ==
    [][/\ C7_OnlyOwnSplitAssigns
       /\ \A k \in DOMAIN participations :
             participations[k] # None => participations'[k] = participations[k]]_vars

\* C7, amended: as stated, but an assigned variant may be re-targeted by a
\* split of the same identity for the same experiment whose own get_variant
\* had returned no variant (a concurrent first access); it is never removed.
C7_StateMachineUpToFirstAccessRace ==
    [][/\ C7_OnlyOwnSplitAssigns
       /\ \A k \in DOMAIN participations :
             participations[k] # None => participations'[k] # None]_vars

\* X is assigned and scored for an experiment for which Y is unassigned
C7_Witness ==
    \E n \in StringNames :
        /\ participations[<<"X", n>>] # None
        /\ scores[<<n, participations[<<"X", n>>]>>] >= 1
        /\ participations[<<"Y", n>>] = None
\* the exceptions of the engine's own code that are no configuration error
EngineFailures == {"AttributeError: None has no attribute name", "KeyError"}

\* C8: a split that found the experiment absent and called save_experiment
\* completes without an engine-level failure, whatever its re-read returns.
C8_CreateThenReReadTolerated ==
    \A p \in Workers :
        (pc[p] = "done" /\ "save_experiment" \in did[p]) =>
            result[p] \notin EngineFailures

\* C9: split with no declarations is the experiment with keys 'True',
\* 'False' and weights 1, 1: it returns True or False only and, in a
\* sequential history, the value of the identity's first split; split with
\* exactly one declaration fails with a configuration error.
C9_ArityAndDefaultVariants ==
    \A p \in Workers :
        op[p] = "split" =>
            /\ Len(variants[p]) = 1 =>
                  pc[p] = "done" /\ result[p] \in {NameError, ArityError}
            /\ (variants[p] = <<>> /\ IsString(experiment_name[p])) =>
                  /\ Parsed(p) = _parse_variants(
                        << <<PyStr("True"), PyBool(TRUE), PyInt(1)>>,
                           <<PyStr("False"), PyBool(FALSE), PyInt(1)>> >>)
                  /\ Parsed(p).error = "none"
                  /\ Parsed(p).keys = <<PyStr("True"), PyStr("False")>>
                  /\ Parsed(p).weights = <<PyInt(1), PyInt(1)>>
                  /\ Returned(p) =>
                        LET f == firstRet[<<environ[p], experiment_name[p]>>]
                        IN  /\ retval[p] \in {PyBool(TRUE), PyBool(FALSE)}
                            /\ variant[p] = f.variant
                            /\ retval[p] = f.value

\* a split with no declarations has returned, to an identity assigned
\* before, without a draw
C9_Witness ==
    \E p \in Workers :
        /\ Returned(p)
        /\ variants[p] = <<>>
        /\ "draw" \notin did[p]
        /\ retval[p] \in {PyBool(TRUE), PyBool(FALSE)}

\* C10: a split that fails with a configuration error has created or
\* altered no experiment, written no participation and recorded no score.
C10_FailedSplitWritesNothing ==
    \A p \in Workers :
        (pc[p] = "done" /\ op[p] = "split" /\ result[p] \in ConfigurationErrors) =>
            did[p] = {}


\* C11: every split call that passes parsing has pairwise-distinct variant
\* keys, at least two of them, and the value it returns is the value of every
\* declaration of the resolved key.  Nothing in _parse_variants compares
\* the keys, so this fails for a call that declares a key twice.
C11_DistinctKeysUnambiguousValue ==
    \A p \in Workers :
        (/\ op[p] = "split"
         /\ IsString(experiment_name[p])
         /\ Parsed(p).error = "none")
        => LET keys == Parsed(p).keys
               values == Parsed(p).values
           IN  /\ \A i, j \in 1..Len(keys) : keys[i] = keys[j] => i = j
               /\ Cardinality(KeySet(keys)) >= 2
               /\ Returned(p)
                    => \A i \in 1..Len(keys) :
                            keys[i] = variant[p] => retval[p] = values[i]

\* C12: in every reachable state, over every interleaving of split calls,
\* each stored participation's variant key is one of the variant keys stored
\* for its experiment.  The branch of split that creates and re-reads the
\* experiment (lines 85-87) does not compare the record it gets back with
\* the declared keys, so this fails when two callers race to create one
\* name with different keys.
C12_ParticipationKeyInStoredKeySet ==
    \A k \in Visitors \X StringNames :
        participations[k] # None =>
            /\ experiments[k[2]] # None
            /\ participations[k] \in KeySet(experiments[k[2]].variants)

\* C13: score(name) by an identity with no participation for name raises
\* no error: the lookup step reads the absent variant and writes nothing,
\* and the score step calls the backend's score once, with (name, absent
\* variant), returns, and leaves experiments and participations as they were.
C13_ScoreWithoutParticipation ==
    [][\A p \in Workers :
        LET k == <<environ[p], experiment_name[p]>>
        IN  /\ (/\ pc[p] = "score_get_variant"
                /\ pc'[p] # pc[p]
                /\ participations[k] = None)
               => /\ pc'[p] = "score"
                  /\ variant'[p] = None
                  /\ did'[p] = {}
                  /\ UNCHANGED backendVars
            /\ (/\ pc[p] = "score"
                /\ pc'[p] # pc[p]
                /\ variant[p] = None)
               => /\ pc'[p] = "done"
                  /\ result'[p] = "ok"
                  /\ did[p] = {}
                  /\ did'[p] = {"score"}
                  /\ scores' = [scores EXCEPT
                        ![<<experiment_name[p], None>>] = @ + 1]
                  /\ UNCHANGED <<experiments, pendingSaves, participations>>
      ]_vars

\* a score for an experiment that was never created, by an identity with no
\* participation, has returned: one conversion for (name, no variant),
\* and still no experiment and no participation
C13_Witness ==
    \E p \in Workers :
        /\ pc[p] = "done" /\ op[p] = "score" /\ result[p] = "ok"
        /\ variant[p] = None
        /\ did[p] = {"score"}
        /\ scores[<<experiment_name[p], None>>] = 1
        /\ experiments[experiment_name[p]] = None
        /\ participations[<<environ[p], experiment_name[p]>>] = None

\* the split of worker p has written nothing so far and finds its experiment
\* stored with the declared key set and its identity already assigned
C14_AlreadyAssigned(p) ==
    /\ op[p] = "split"
    /\ pc[p] \notin {"idle", "done"}
    /\ did[p] = {}
    /\ pendingSaves = {}
    /\ experiments[experiment_name[p]] # None
    /\ KeySet(experiments[experiment_name[p]].variants) = KeySet(Parsed(p).keys)
    /\ participations[<<environ[p], experiment_name[p]>>] # None

\* C14: in a sequential history every step of a split call by an identity
\* that already has a participation for an existing experiment with a matching
\* key set draws nothing and writes nothing (experiments, participations and
\* scores stay as they are) and the call returns; and no split call comes
\* to save_experiment or to participate a second time.
C14_SplitIdempotentNoRetry ==
    [][\A p \in Workers :
        /\ C14_AlreadyAssigned(p)
            => /\ UNCHANGED backendVars
               /\ did'[p] = {}
               /\ pc'[p] \in {"get_variant", "return", "done"}
               /\ pc'[p] = "done" => result'[p] = "ok"
        /\ pc[p] = "save_experiment" => "save_experiment" \notin did[p]
        /\ pc[p] = "participate" => did[p] \cap {"draw", "participate"} = {}
        /\ (op[p] = "split" /\ did'[p] # did[p] /\ did'[p] # {})
            => \/ pc[p] = "save_experiment" /\ pc'[p] = "reread"
               \/ pc[p] = "participate" /\ pc'[p] = "return"
      ]_vars

\* a split by an identity assigned before, for an experiment stored with the
\* declared keys, has returned the stored variant's value without a draw or a
\* write
C14_Witness ==
    \E p \in Workers :
        /\ Returned(p)
        /\ did[p] = {}
        /\ experiments[experiment_name[p]] # None
        /\ participations[<<environ[p], experiment_name[p]>>] = variant[p]
        /\ retval[p] = DictOf(Parsed(p).keys, Parsed(p).values)[variant[p]]

\* C15: within one split call the participation is persisted under the
\* identity value that was passed to get_variant, also when the identity
\* provider returns different values on successive resolutions: the
\* participate step writes the drawn variant for the looked-up (identity,
\* experiment) pair and for no other.  self.identity is a property that
\* asks the provider on every access, and split reads it at line 96 and again
\* at line 100, so this fails with such a provider.
C15_PersistedUnderLookupIdentity ==
    [][\A p \in Workers :
        (pc[p] = "participate" /\ pc'[p] = "return")
            => participations' =
                [participations EXCEPT
                    ![<<lookup_identity[p], experiment[p].name>>] = variant'[p]]
      ]_vars

\* the three sequences the claim describes for a declaration list vs
C16_Expected(vs) ==
    << [i \in 1..Len(vs) |-> vs[i][1]],
       [i \in 1..Len(vs) |-> IF Len(vs[i]) >= 2 THEN vs[i][2] ELSE None],
       [i \in 1..Len(vs) |-> IF Len(vs[i]) = 3 THEN vs[i][3] ELSE PyInt(1)] >>

\* C16: for every list of two or more declarations of 1, 2 or 3 elements
\* each (with string keys and integer weights, the declarations the type
\* checks let through), parsing returns keys, values and weights: three
\* sequences as long as the list and in its order, a missing value filled
\* with None, a missing weight with 1, a given weight taken as it is.
C16_ParallelSequencesWithDefaults ==
    \A p \in Workers :
        (pc[p] = "done" /\ op[p] = "_parse_variants") =>
            LET vs == variants[p]
            IN  (/\ Len(vs) >= 2
                 /\ \A i \in 1..Len(vs) :
                        /\ Len(vs[i]) \in 1..3
                        /\ IsString(vs[i][1])
                        /\ Len(vs[i]) = 3 => IsInt(vs[i][3]))
                => /\ result[p] = "ok"
                   /\ retval[p] = C16_Expected(vs)
                   /\ \A s \in 1..3 : Len(retval[p][s]) = Len(vs)

\* a list of a lone key and a (key, value, weight) triple has been parsed
C16_Witness ==
    \E p \in Workers :
        /\ pc[p] = "done" /\ op[p] = "_parse_variants"
        /\ variants[p] = << <<PyStr("a")>>, <<PyStr("b"), PyInt(2), PyInt(0)>> >>
        /\ result[p] = "ok"
        /\ retval[p] = << <<PyStr("a"), PyStr("b")>>,
                          <<None, PyInt(2)>>,
                          <<PyInt(1), PyInt(0)>> >>

=============================================================================
